---------------------------- MODULE Spec2Model ----------------------------
(***************************************************************************)
(* Model of src/app.js: the hiragana substitution page.                    *)
(*                                                                         *)
(* The file holds two generations of the page script.  Lines 1-197 are the *)
(* page with input highlighting (parseDictTsv, convert, buildHighlightHtml,*)
(* setStatus, main); lines 199-332 are the plain page (parseDictTsv,       *)
(* convert, main).  Both are modelled; the variable `page` says which of   *)
(* the two scripts the document loaded.                                    *)
(*                                                                         *)
(* Strings are sequences of code points (Array.from); a Map is a function  *)
(* whose DOMAIN is the key set; a JS Set is a duplicate-free sequence in   *)
(* insertion order.  Cursors are 0-based as in the source, so chars[i] of  *)
(* the source is chars[i + 1] here.                                        *)
(***************************************************************************)
EXTENDS Integers, Sequences, FiniteSets, TLC

VARIABLES
    page,       \* "highlight" (lines 1-197) or "plain" (lines 199-332)
    dict,       \* main's dict: [map1, map2]
    src,        \* src.value, the raw text of the input box
    pc,         \* position inside refresh(): "convert", "highlight", "idle"
    chars,      \* convert: Array.from(src.normalize('NFC'))
    i,          \* convert: loop cursor
    out,        \* convert: out
    skipped,    \* convert: skipped (Set, insertion order)
    log,        \* history: one record per iteration of convert's loop
    hchars,     \* buildHighlightHtml: chars
    j,          \* buildHighlightHtml: cursor of the first loop
    mark,       \* buildHighlightHtml: mark
    hlog,       \* history: one record per iteration of the marking loop
    dst,        \* dst.value
    hl,         \* hl.innerHTML, one piece per symbol
    status,     \* status.textContent
    text,       \* parseDictTsv: the dictionary text being parsed
    lines,      \* parseDictTsv: text.split(/\r?\n/)
    ln,         \* parseDictTsv: number of lines already processed
    map1,       \* parseDictTsv: map1
    map2,       \* parseDictTsv: map2
    plog        \* history: one record per line processed

convVars == <<page, dict, src, pc, chars, i, out, skipped, log,
              hchars, j, mark, hlog, dst, hl, status>>
dictVars == <<text, lines, ln, map1, map2, plog>>
vars == <<page, dict, src, pc, chars, i, out, skipped, log,
          hchars, j, mark, hlog, dst, hl, status,
          text, lines, ln, map1, map2, plog>>

---------------------------------------------------------------------------
(* Code points.                                                            *)

TAB == 9
LF == 10
CR == 13
SP == 32
HASH == 35
HIRA_LO == 12353
HIRA_HI == 12438

\* Symbols used by the bounded inputs.
SmallA == HIRA_LO           \* U+3041, first symbol of the alphabet
KA == HIRA_LO + 10          \* U+304B
GA == HIRA_LO + 11          \* U+304C, the canonical composition of KA DAKUTEN
DAKUTEN == HIRA_HI + 3      \* U+3099, combining voiced sound mark
LatinX == HIRA_LO - 12233   \* U+0078, a symbol below the alphabet

---------------------------------------------------------------------------
(* Bounds of the checked instance.                                         *)

MaxLen == 3         \* longest text typed into the input box
MaxText == 5        \* longest dictionary text

---------------------------------------------------------------------------
(* Helpers of the script.                                                  *)

\* mutant: the newline is not whitespace
isWhitespace_NoNewline(ch) == ch = CR \/ ch = TAB \/ ch = SP

isWhitespace(ch) == ch = LF \/ ch = CR \/ ch = TAB \/ ch = SP

\* mutant: the range test has no upper end
HIRAGANA_RE_NoUpper(ch) == HIRA_LO <= ch

HIRAGANA_RE(ch) == HIRA_LO <= ch /\ ch <= HIRA_HI

\* String.prototype.normalize('NFC') on the symbols of the bounded inputs:
\* the only canonical composition among them is KA DAKUTEN -> GA.
RECURSIVE NFC(_)
NFC(s) ==
    IF Len(s) = 0 THEN <<>>
    ELSE IF Len(s) >= 2 /\ s[1] = KA /\ s[2] = DAKUTEN
         THEN <<GA>> \o NFC(SubSeq(s, 3, Len(s)))
         ELSE <<s[1]>> \o NFC(Tail(s))

\* Set.prototype.add: insertion order, no duplicates.
SetAdd(set, ch) ==
    IF \E k \in 1..Len(set) : set[k] = ch THEN set ELSE Append(set, ch)

Range(s) == {s[k] : k \in 1..Len(s)}

RECURSIVE SelectWs(_)
SelectWs(s) ==
    IF Len(s) = 0 THEN <<>>
    ELSE IF s[1] \in {LF, CR, TAB, SP} THEN <<s[1]>> \o SelectWs(Tail(s))
    ELSE SelectWs(Tail(s))


\* escapeHtml, on a string of code points.
RECURSIVE escapeHtml(_)
escapeHtml(s) ==
    IF Len(s) = 0 THEN <<>>
    ELSE (CASE s[1] = 38 -> <<38, 97, 109, 112, 59>>          \* &amp;
            [] s[1] = 60 -> <<38, 108, 116, 59>>              \* &lt;
            [] s[1] = 62 -> <<38, 103, 116, 59>>              \* &gt;
            [] s[1] = 34 -> <<38, 113, 117, 111, 116, 59>>    \* &quot;
            [] s[1] = 39 -> <<38, 35, 51, 57, 59>>            \* &#39;
            [] OTHER -> <<s[1]>>) \o escapeHtml(Tail(s))

RECURSIVE FilterHiragana(_)
FilterHiragana(s) ==
    IF Len(s) = 0 THEN <<>>
    ELSE IF HIRAGANA_RE(s[1]) THEN <<s[1]>> \o FilterHiragana(Tail(s))
    ELSE FilterHiragana(Tail(s))

---------------------------------------------------------------------------
(* parseDictTsv.                                                           *)

\* The code points String.prototype.trim / trimEnd strip (WhiteSpace and
\* LineTerminator of ECMA-262).
JsSpace ==
    {TAB, LF, 11, 12, CR, SP, 160, 5760, 8232, 8233, 8239, 8287, 12288, 65279}
        \cup (8192..8202)

RECURSIVE trimEnd(_)
trimEnd(s) ==
    IF Len(s) > 0 /\ s[Len(s)] \in JsSpace THEN trimEnd(SubSeq(s, 1, Len(s) - 1))
    ELSE s

RECURSIVE trimStart(_)
trimStart(s) ==
    IF Len(s) > 0 /\ s[1] \in JsSpace THEN trimStart(Tail(s)) ELSE s

trim(s) == trimStart(trimEnd(s))

\* String.prototype.indexOf for one symbol, 0-based; -1 when absent
indexOf(s, ch) ==
    IF \E k \in 1..Len(s) : s[k] = ch
    THEN (CHOOSE k \in 1..Len(s) : s[k] = ch /\ \A m \in 1..(k - 1) : s[m] # ch) - 1
    ELSE -1

\* text.split(/\r?\n/), lines 23 / 209: a line ends at each LF, and a CR
\* right before that LF belongs to the separator
RECURSIVE split(_)
split(t) ==
    LET n == indexOf(t, LF) IN
    IF n < 0 THEN <<t>>
    ELSE LET head == SubSeq(t, 1, n)
             piece == IF n > 0 /\ head[n] = CR THEN SubSeq(head, 1, n - 1) ELSE head
         IN <<piece>> \o split(SubSeq(t, n + 2, Len(t)))

\* Map.prototype.set
MapSet(m, k, v) == [x \in (DOMAIN m) \cup {k} |-> IF x = k THEN v ELSE m[x]]

\* mutant: the value is trimmed on both sides
parseLine_TrimValue(raw, m1, m2) ==
    LET line == trimEnd(raw)
        skip(why) == [map1 |-> m1, map2 |-> m2, kind |-> why, key |-> <<>>, value |-> <<>>]
    IN
    IF Len(line) = 0 THEN skip("blank")
    ELSE IF line[1] = HASH THEN skip("comment")
    ELSE LET tab == indexOf(line, TAB) IN
    IF tab < 0 THEN skip("notab")
    ELSE LET keyRaw == trim(SubSeq(line, 1, tab))
             value == trim(SubSeq(line, tab + 2, Len(line)))
             key == NFC(keyRaw)
         IN
         IF Len(key) = 1
         THEN IF HIRAGANA_RE(key[1])
              THEN [map1 |-> MapSet(m1, key[1], value), map2 |-> m2,
                    kind |-> "set1", key |-> key, value |-> value]
              ELSE skip("drop")
         ELSE IF Len(key) = 2
         THEN IF HIRAGANA_RE(key[1]) /\ HIRAGANA_RE(key[2])
              THEN [map1 |-> m1, map2 |-> MapSet(m2, <<key[1], key[2]>>, value),
                    kind |-> "set2", key |-> key, value |-> value]
              ELSE skip("drop")
         ELSE skip("drop")

\* lines 24-43: the body of the loop, for one raw line
parseLine(raw, m1, m2) ==
    LET line == trimEnd(raw)
        skip(why) == [map1 |-> m1, map2 |-> m2, kind |-> why, key |-> <<>>, value |-> <<>>]
    IN
    IF Len(line) = 0 THEN skip("blank")
    ELSE IF line[1] = HASH THEN skip("comment")
    ELSE LET tab == indexOf(line, TAB) IN
    IF tab < 0 THEN skip("notab")
    ELSE LET keyRaw == trim(SubSeq(line, 1, tab))
             value == SubSeq(line, tab + 2, Len(line))
             key == NFC(keyRaw)
         IN
         IF Len(key) = 1
         THEN IF HIRAGANA_RE(key[1])
              THEN [map1 |-> MapSet(m1, key[1], value), map2 |-> m2,
                    kind |-> "set1", key |-> key, value |-> value]
              ELSE skip("drop")
         ELSE IF Len(key) = 2
         THEN IF HIRAGANA_RE(key[1]) /\ HIRAGANA_RE(key[2])
              THEN [map1 |-> m1, map2 |-> MapSet(m2, <<key[1], key[2]>>, value),
                    kind |-> "set2", key |-> key, value |-> value]
              ELSE skip("drop")
         ELSE skip("drop")

\* lines 210-235: the body of the loop of the plain page's parser
parseLinePlain(raw, m1, m2) ==
    LET line == trimEnd(raw)
        skip(why) == [map1 |-> m1, map2 |-> m2, kind |-> why, key |-> <<>>, value |-> <<>>]
    IN
    IF Len(line) = 0 THEN skip("blank")
    ELSE IF line[1] = HASH THEN skip("comment")
    ELSE LET tab == indexOf(line, TAB) IN
    IF tab < 0 THEN skip("notab")
    ELSE LET keyRaw == trim(SubSeq(line, 1, tab))
             value == SubSeq(line, tab + 2, Len(line))
             key == NFC(keyRaw)
             keyChars == key
         IN
         IF Len(keyChars) = 1
         THEN IF HIRAGANA_RE(keyChars[1])
              THEN [map1 |-> MapSet(m1, keyChars[1], value), map2 |-> m2,
                    kind |-> "set1", key |-> key, value |-> value]
              ELSE skip("drop")
         ELSE IF Len(keyChars) = 2
         THEN IF HIRAGANA_RE(keyChars[1]) /\ HIRAGANA_RE(keyChars[2])
              THEN [map1 |-> m1, map2 |-> MapSet(m2, <<keyChars[1], keyChars[2]>>, value),
                    kind |-> "set2", key |-> key, value |-> value]
              ELSE skip("drop")
         ELSE skip("drop")

---------------------------------------------------------------------------
(* convert: one iteration of the scan loop.  The result carries the new    *)
(* cursor, output and skipped set, and the branch the iteration took.      *)

\* mutant: the 1-symbol map is consulted before the pair
convertIter_SingleFirst(cs, c, o, sk, d) ==
    LET ch == cs[c + 1] IN
    IF isWhitespace(ch)
    THEN [i |-> c + 1, out |-> Append(o, ch), skipped |-> sk, kind |-> "space"]
    ELSE IF ~HIRAGANA_RE(ch)
    THEN [i |-> c + 1, out |-> o, skipped |-> SetAdd(sk, ch), kind |-> "other"]
    ELSE IF ch \in DOMAIN d.map1
    THEN [i |-> c + 1, out |-> o \o d.map1[ch], skipped |-> sk, kind |-> "single"]
    ELSE IF /\ c + 1 < Len(cs)
            /\ HIRAGANA_RE(cs[c + 2])
            /\ <<ch, cs[c + 2]>> \in DOMAIN d.map2
    THEN [i |-> c + 2, out |-> o \o d.map2[<<ch, cs[c + 2]>>], skipped |-> sk,
          kind |-> "pair"]
    ELSE [i |-> c + 1, out |-> o, skipped |-> SetAdd(sk, ch), kind |-> "miss"]

\* mutant: an unmatched in-alphabet symbol is not recorded
convertIter_ForgetMiss(cs, c, o, sk, d) ==
    LET ch == cs[c + 1] IN
    IF isWhitespace(ch)
    THEN [i |-> c + 1, out |-> Append(o, ch), skipped |-> sk, kind |-> "space"]
    ELSE IF ~HIRAGANA_RE(ch)
    THEN [i |-> c + 1, out |-> o, skipped |-> SetAdd(sk, ch), kind |-> "other"]
    ELSE IF /\ c + 1 < Len(cs)
            /\ HIRAGANA_RE(cs[c + 2])
            /\ <<ch, cs[c + 2]>> \in DOMAIN d.map2
    THEN [i |-> c + 2, out |-> o \o d.map2[<<ch, cs[c + 2]>>], skipped |-> sk,
          kind |-> "pair"]
    ELSE IF ch \in DOMAIN d.map1
    THEN [i |-> c + 1, out |-> o \o d.map1[ch], skipped |-> sk, kind |-> "single"]
    ELSE [i |-> c + 1, out |-> o, skipped |-> sk, kind |-> "miss"]

\* mutant: a 1-symbol match advances the cursor by 2
convertIter_SingleSkips2(cs, c, o, sk, d) ==
    LET ch == cs[c + 1] IN
    IF isWhitespace(ch)
    THEN [i |-> c + 1, out |-> Append(o, ch), skipped |-> sk, kind |-> "space"]
    ELSE IF ~HIRAGANA_RE(ch)
    THEN [i |-> c + 1, out |-> o, skipped |-> SetAdd(sk, ch), kind |-> "other"]
    ELSE IF /\ c + 1 < Len(cs)
            /\ HIRAGANA_RE(cs[c + 2])
            /\ <<ch, cs[c + 2]>> \in DOMAIN d.map2
    THEN [i |-> c + 2, out |-> o \o d.map2[<<ch, cs[c + 2]>>], skipped |-> sk,
          kind |-> "pair"]
    ELSE IF ch \in DOMAIN d.map1
    THEN [i |-> c + 2, out |-> o \o d.map1[ch], skipped |-> sk, kind |-> "single"]
    ELSE [i |-> c + 1, out |-> o, skipped |-> SetAdd(sk, ch), kind |-> "miss"]

\* lines 64-88 (page with highlighting)
convertIter(cs, c, o, sk, d) ==
    LET ch == cs[c + 1] IN
    IF isWhitespace(ch)
    THEN [i |-> c + 1, out |-> Append(o, ch), skipped |-> sk, kind |-> "space"]
    ELSE IF ~HIRAGANA_RE(ch)
    THEN [i |-> c + 1, out |-> o, skipped |-> SetAdd(sk, ch), kind |-> "other"]
    ELSE IF /\ c + 1 < Len(cs)
            /\ HIRAGANA_RE(cs[c + 2])
            /\ <<ch, cs[c + 2]>> \in DOMAIN d.map2
    THEN [i |-> c + 2, out |-> o \o d.map2[<<ch, cs[c + 2]>>], skipped |-> sk,
          kind |-> "pair"]
    ELSE IF ch \in DOMAIN d.map1
    THEN [i |-> c + 1, out |-> o \o d.map1[ch], skipped |-> sk, kind |-> "single"]
    ELSE [i |-> c + 1, out |-> o, skipped |-> SetAdd(sk, ch), kind |-> "miss"]

\* mutant: an unmatched symbol takes the next in-alphabet symbol with it
convertIterPlain_Shift(cs, c, o, sk, d) ==
    LET ch == cs[c + 1] IN
    IF isWhitespace(ch)
    THEN [i |-> c + 1, out |-> Append(o, ch), skipped |-> sk, kind |-> "space"]
    ELSE IF ~HIRAGANA_RE(ch)
    THEN [i |-> c + 1, out |-> o, skipped |-> sk, kind |-> "other"]
    ELSE IF /\ c + 1 < Len(cs)
            /\ HIRAGANA_RE(cs[c + 2])
            /\ <<ch, cs[c + 2]>> \in DOMAIN d.map2
    THEN [i |-> c + 2, out |-> o \o d.map2[<<ch, cs[c + 2]>>], skipped |-> sk,
          kind |-> "pair"]
    ELSE IF ch \in DOMAIN d.map1
    THEN [i |-> c + 1, out |-> o \o d.map1[ch], skipped |-> sk, kind |-> "single"]
    ELSE [i |-> IF c + 1 < Len(cs) /\ HIRAGANA_RE(cs[c + 2]) THEN c + 2 ELSE c + 1,
          out |-> o, skipped |-> SetAdd(sk, ch), kind |-> "miss"]

\* mutant: whitespace is dropped from the output
convertIterPlain_DropWs(cs, c, o, sk, d) ==
    LET ch == cs[c + 1] IN
    IF isWhitespace(ch)
    THEN [i |-> c + 1, out |-> o, skipped |-> sk, kind |-> "space"]
    ELSE IF ~HIRAGANA_RE(ch)
    THEN [i |-> c + 1, out |-> o, skipped |-> sk, kind |-> "other"]
    ELSE IF /\ c + 1 < Len(cs)
            /\ HIRAGANA_RE(cs[c + 2])
            /\ <<ch, cs[c + 2]>> \in DOMAIN d.map2
    THEN [i |-> c + 2, out |-> o \o d.map2[<<ch, cs[c + 2]>>], skipped |-> sk,
          kind |-> "pair"]
    ELSE IF ch \in DOMAIN d.map1
    THEN [i |-> c + 1, out |-> o \o d.map1[ch], skipped |-> sk, kind |-> "single"]
    ELSE [i |-> c + 1, out |-> o, skipped |-> SetAdd(sk, ch), kind |-> "miss"]

\* lines 254-285 (plain page): a symbol outside the alphabet is not recorded
convertIterPlain(cs, c, o, sk, d) ==
    LET ch == cs[c + 1] IN
    IF isWhitespace(ch)
    THEN [i |-> c + 1, out |-> Append(o, ch), skipped |-> sk, kind |-> "space"]
    ELSE IF ~HIRAGANA_RE(ch)
    THEN [i |-> c + 1, out |-> o, skipped |-> sk, kind |-> "other"]
    ELSE IF /\ c + 1 < Len(cs)
            /\ HIRAGANA_RE(cs[c + 2])
            /\ <<ch, cs[c + 2]>> \in DOMAIN d.map2
    THEN [i |-> c + 2, out |-> o \o d.map2[<<ch, cs[c + 2]>>], skipped |-> sk,
          kind |-> "pair"]
    ELSE IF ch \in DOMAIN d.map1
    THEN [i |-> c + 1, out |-> o \o d.map1[ch], skipped |-> sk, kind |-> "single"]
    ELSE [i |-> c + 1, out |-> o, skipped |-> SetAdd(sk, ch), kind |-> "miss"]

\* mutant: the marking loop consults the 1-symbol map before the pair
markIter_SingleFirst(cs, c, m, d) ==
    LET ch == cs[c + 1] IN
    IF isWhitespace(ch)
    THEN [j |-> c + 1, mark |-> [m EXCEPT ![c + 1] = "space"], kind |-> "space"]
    ELSE IF ~HIRAGANA_RE(ch)
    THEN [j |-> c + 1, mark |-> [m EXCEPT ![c + 1] = "bad"], kind |-> "other"]
    ELSE IF ch \in DOMAIN d.map1
    THEN [j |-> c + 1, mark |-> [m EXCEPT ![c + 1] = "good"], kind |-> "single"]
    ELSE IF /\ c + 1 < Len(cs)
            /\ HIRAGANA_RE(cs[c + 2])
            /\ <<ch, cs[c + 2]>> \in DOMAIN d.map2
    THEN [j |-> c + 2,
          mark |-> [m EXCEPT ![c + 1] = "good", ![c + 2] = "good"],
          kind |-> "pair"]
    ELSE [j |-> c + 1, mark |-> [m EXCEPT ![c + 1] = "bad"], kind |-> "miss"]

\* buildHighlightHtml, lines 99-120: one iteration of the marking loop
markIter(cs, c, m, d) ==
    LET ch == cs[c + 1] IN
    IF isWhitespace(ch)
    THEN [j |-> c + 1, mark |-> [m EXCEPT ![c + 1] = "space"], kind |-> "space"]
    ELSE IF ~HIRAGANA_RE(ch)
    THEN [j |-> c + 1, mark |-> [m EXCEPT ![c + 1] = "bad"], kind |-> "other"]
    ELSE IF /\ c + 1 < Len(cs)
            /\ HIRAGANA_RE(cs[c + 2])
            /\ <<ch, cs[c + 2]>> \in DOMAIN d.map2
    THEN [j |-> c + 2,
          mark |-> [m EXCEPT ![c + 1] = "good", ![c + 2] = "good"],
          kind |-> "pair"]
    ELSE IF ch \in DOMAIN d.map1
    THEN [j |-> c + 1, mark |-> [m EXCEPT ![c + 1] = "good"], kind |-> "single"]
    ELSE [j |-> c + 1, mark |-> [m EXCEPT ![c + 1] = "bad"], kind |-> "miss"]

\* buildHighlightHtml, lines 122-128: the markup, one piece per symbol
highlightHtml(cs, m) ==
    [k \in 1..Len(cs) |->
        [bad |-> (m[k] = "bad"),
         esc |-> escapeHtml(IF cs[k] = TAB THEN <<SP, SP, SP, SP>> ELSE <<cs[k]>>)]]

\* setStatus, lines 131-139: the dictionary sizes and the symbols reported
setStatus(d, sk) ==
    [n1 |-> Cardinality(DOMAIN d.map1), n2 |-> Cardinality(DOMAIN d.map2),
     unregistered |-> FilterHiragana(sk)]

\* refresh of the plain page, lines 309-314: the skipped set is shown as it is
statusPlain(d, sk) ==
    [n1 |-> Cardinality(DOMAIN d.map1), n2 |-> Cardinality(DOMAIN d.map2),
     unregistered |-> sk]

---------------------------------------------------------------------------
(* The bounded inputs of the page.                                         *)

\* Symbols the user types.
SrcAlphabet == {LF, SmallA, KA, DAKUTEN, LatinX}

\* Dictionary entries a loaded table is drawn from.  Values are what
\* parseDictTsv can store: non-empty and without trailing whitespace.
Val1 == (SmallA :> <<49>>) @@ (KA :> <<50>>) @@ (GA :> <<51>>)
Val2 == (<<SmallA, KA>> :> <<88>>) @@ (<<KA, SmallA>> :> <<89, SP, 89>>)

Tables ==
    {[map1 |-> [k \in D1 |-> Val1[k]], map2 |-> [k \in D2 |-> Val2[k]]] :
        D1 \in SUBSET (DOMAIN Val1), D2 \in SUBSET (DOMAIN Val2)}

EmptyTable == [map1 |-> <<>>, map2 |-> <<>>]

---------------------------------------------------------------------------
(* The page: main and refresh.                                             *)

\* main, lines 141-196 / 290-318: the dictionary is loaded (or left empty
\* when the load fails) and refresh() is called on the empty input box.
Init ==
    /\ page \in {"highlight", "plain"}
    /\ dict \in Tables
    /\ src = <<>>
    /\ pc = "convert"
    /\ chars = <<>> /\ i = 0 /\ out = <<>> /\ skipped = <<>> /\ log = <<>>
    /\ hchars = <<>> /\ j = 0 /\ mark = <<>> /\ hlog = <<>>
    /\ dst = <<>> /\ hl = <<>>
    /\ status = [n1 |-> Cardinality(DOMAIN dict.map1),
                 n2 |-> Cardinality(DOMAIN dict.map2), unregistered |-> <<>>]
    /\ text = <<>> /\ lines = <<>> /\ ln = 0
    /\ map1 = <<>> /\ map2 = <<>> /\ plog = <<>>

\* The user types one more symbol: the input event calls refresh(), which
\* calls convert (lines 57-62 / 247-252).  Every text up to MaxLen symbols
\* is reached this way; refresh reads nothing but src.value and dict.
input ==
    /\ pc = "idle"
    /\ Len(src) < MaxLen
    /\ \E ch \in SrcAlphabet :
        /\ src' = Append(src, ch)
        /\ chars' = NFC(Append(src, ch))
    /\ pc' = "convert"
    /\ i' = 0 /\ out' = <<>> /\ skipped' = <<>> /\ log' = <<>>
    /\ hchars' = <<>> /\ j' = 0 /\ mark' = <<>> /\ hlog' = <<>>
    /\ UNCHANGED <<page, dict, dst, hl, status>>
    /\ UNCHANGED dictVars

\* convert, lines 64-88: one iteration of the loop
convert ==
    /\ pc = "convert" /\ page = "highlight"
    /\ i < Len(chars)
    /\ LET r == convertIter(chars, i, out, skipped, dict) IN
        /\ i' = r.i /\ out' = r.out /\ skipped' = r.skipped
        /\ log' = Append(log, [pos |-> i, kind |-> r.kind])
    /\ UNCHANGED <<page, dict, src, pc, chars, hchars, j, mark, hlog, dst, hl, status>>
    /\ UNCHANGED dictVars

\* convert, lines 254-285: one iteration of the loop
convertPlain ==
    /\ pc = "convert" /\ page = "plain"
    /\ i < Len(chars)
    /\ LET r == convertIterPlain(chars, i, out, skipped, dict) IN
        /\ i' = r.i /\ out' = r.out /\ skipped' = r.skipped
        /\ log' = Append(log, [pos |-> i, kind |-> r.kind])
    /\ UNCHANGED <<page, dict, src, pc, chars, hchars, j, mark, hlog, dst, hl, status>>
    /\ UNCHANGED dictVars

\* convert returns (line 90); refresh stores the output (line 167) and calls
\* buildHighlightHtml (lines 169, 94-97)
refreshConverted ==
    /\ pc = "convert" /\ page = "highlight"
    /\ ~(i < Len(chars))
    /\ dst' = out
    /\ hchars' = NFC(src)
    /\ mark' = [k \in 1..Len(NFC(src)) |-> "good"]
    /\ j' = 0 /\ hlog' = <<>>
    /\ pc' = "highlight"
    /\ UNCHANGED <<page, dict, src, chars, i, out, skipped, log, hl, status>>
    /\ UNCHANGED dictVars

\* buildHighlightHtml, lines 99-120: one iteration of the marking loop
buildHighlightHtml ==
    /\ pc = "highlight"
    /\ j < Len(hchars)
    /\ LET r == markIter(hchars, j, mark, dict) IN
        /\ j' = r.j /\ mark' = r.mark
        /\ hlog' = Append(hlog, [pos |-> j, kind |-> r.kind])
    /\ UNCHANGED <<page, dict, src, pc, chars, i, out, skipped, log, hchars, dst, hl, status>>
    /\ UNCHANGED dictVars

\* buildHighlightHtml returns the markup (lines 122-128); refresh shows it
\* and sets the status line (lines 169-175)
refreshHighlighted ==
    /\ pc = "highlight"
    /\ ~(j < Len(hchars))
    /\ hl' = highlightHtml(hchars, mark)
    /\ status' = setStatus(dict, skipped)
    /\ pc' = "idle"
    /\ UNCHANGED <<page, dict, src, chars, i, out, skipped, log, hchars, j, mark, hlog, dst>>
    /\ UNCHANGED dictVars

\* convert returns (line 287); refresh of the plain page stores the output
\* and sets the status line (lines 306-314)
refreshPlain ==
    /\ pc = "convert" /\ page = "plain"
    /\ ~(i < Len(chars))
    /\ dst' = out
    /\ status' = statusPlain(dict, skipped)
    /\ pc' = "idle"
    /\ UNCHANGED <<page, dict, src, chars, i, out, skipped, log, hchars, j, mark, hlog, hl>>
    /\ UNCHANGED dictVars

Next ==
    \/ input
    \/ convert
    \/ convertPlain
    \/ refreshConverted
    \/ buildHighlightHtml
    \/ refreshHighlighted
    \/ refreshPlain

Spec == Init /\ [][Next]_vars

\* A handler runs to completion: every step of refresh() is taken.
RefreshStep ==
    convert \/ convertPlain \/ refreshConverted \/ buildHighlightHtml
        \/ refreshHighlighted \/ refreshPlain

FairSpec == Spec /\ WF_vars(RefreshStep)

---------------------------------------------------------------------------
(* Loading the dictionary: main calls parseDictTsv on the fetched text.    *)

\* Symbols of the dictionary texts.
DictAlphabet == {TAB, SP, LF, CR, HASH, KA, DAKUTEN}

Texts == UNION {[1..n -> DictAlphabet] : n \in 0..MaxText}

\* main, lines 156-157 / 298, 244: the text is fetched and parseDictTsv
\* starts on it (lines 20-23 / 206-209)
InitDict ==
    /\ page \in {"highlight", "plain"}
    /\ text \in Texts
    /\ lines = split(text)
    /\ ln = 0 /\ map1 = <<>> /\ map2 = <<>> /\ plog = <<>>
    /\ dict = EmptyTable
    /\ src = <<>>
    /\ pc = "load"
    /\ chars = <<>> /\ i = 0 /\ out = <<>> /\ skipped = <<>> /\ log = <<>>
    /\ hchars = <<>> /\ j = 0 /\ mark = <<>> /\ hlog = <<>>
    /\ dst = <<>> /\ hl = <<>>
    /\ status = [n1 |-> 0, n2 |-> 0, unregistered |-> <<>>]

\* parseDictTsv, lines 24-44: one line
parseDictTsv ==
    /\ pc = "load" /\ page = "highlight"
    /\ ln < Len(lines)
    /\ LET r == parseLine(lines[ln + 1], map1, map2) IN
        /\ map1' = r.map1 /\ map2' = r.map2
        /\ plog' = Append(plog, [raw |-> lines[ln + 1], kind |-> r.kind,
                                 key |-> r.key, value |-> r.value])
    /\ ln' = ln + 1
    /\ UNCHANGED <<text, lines>>
    /\ UNCHANGED convVars

\* parseDictTsv, lines 210-235: one line
parseDictTsvPlain ==
    /\ pc = "load" /\ page = "plain"
    /\ ln < Len(lines)
    /\ LET r == parseLinePlain(lines[ln + 1], map1, map2) IN
        /\ map1' = r.map1 /\ map2' = r.map2
        /\ plog' = Append(plog, [raw |-> lines[ln + 1], kind |-> r.kind,
                                 key |-> r.key, value |-> r.value])
    /\ ln' = ln + 1
    /\ UNCHANGED <<text, lines>>
    /\ UNCHANGED convVars

\* parseDictTsv returns (line 46 / 237); main keeps the table, reports its
\* sizes (lines 157-159 / 298-299) and goes on to call refresh()
mainLoaded ==
    /\ pc = "load"
    /\ ~(ln < Len(lines))
    /\ dict' = [map1 |-> map1, map2 |-> map2]
    /\ status' = [n1 |-> Cardinality(DOMAIN map1), n2 |-> Cardinality(DOMAIN map2),
                  unregistered |-> <<>>]
    /\ pc' = "convert"
    /\ UNCHANGED <<page, src, chars, i, out, skipped, log, hchars, j, mark, hlog, dst, hl>>
    /\ UNCHANGED dictVars

NextDict ==
    \/ parseDictTsv
    \/ parseDictTsvPlain
    \/ mainLoaded

SpecDict == InitDict /\ [][NextDict]_vars

---------------------------------------------------------------------------
(* Vocabulary of the properties, stated on the data and not through the    *)
(* script's helpers.                                                       *)

InAlphabet(ch) == ch \in HIRA_LO..HIRA_HI
IsWs(ch) == ch \in {SP, TAB, LF, CR}

\* convert is about to run an iteration of its loop at cursor i
Scanning == pc = "convert" /\ i < Len(chars)

\* the symbol under the cursor
Cur == chars[i + 1]

\* the 2-symbol lookup at cursor c of cs succeeds
PairApplies(cs, c, d) ==
    /\ c + 1 < Len(cs)
    /\ InAlphabet(cs[c + 1])
    /\ InAlphabet(cs[c + 2])
    /\ <<cs[c + 1], cs[c + 2]>> \in DOMAIN d.map2

\* the cursor positions convert has stood at
CursorPositions == {log[k].pos : k \in 1..Len(log)}

---------------------------------------------------------------------------
\* C1: longest-match precedence.  Whenever the symbol under convert's
\* cursor and the next one are both in the alphabet and the pair is a key of
\* the 2-symbol map, the iteration appends that map's value, advances the
\* cursor by exactly 2 and leaves the unmatched set alone, whether or not
\* either symbol has a 1-symbol entry.
C1_LongestMatch ==
    [][(Scanning /\ PairApplies(chars, i, dict)) =>
          /\ out' = out \o dict.map2[<<chars[i + 1], chars[i + 2]>>]
          /\ i' = i + 2
          /\ skipped' = skipped]_vars

\* "ab" was converted by a table holding both ab -> X and a -> 1: the pair
\* entry was used, and the output is X.
C1_Witness ==
    /\ pc = "idle"
    /\ chars = <<SmallA, KA>>
    /\ SmallA \in DOMAIN dict.map1
    /\ <<SmallA, KA>> \in DOMAIN dict.map2
    /\ Len(log) = 1 /\ log[1].pos = 0
    /\ dst = dict.map2[<<SmallA, KA>>]

---------------------------------------------------------------------------
\* one iteration at an in-alphabet symbol whose pair lookup does not succeed
C9_StepOnly1 ==
    (Scanning /\ InAlphabet(Cur) /\ ~PairApplies(chars, i, dict)) =>
        /\ i' = i + 1
        /\ IF Cur \in DOMAIN dict.map1
           THEN out' = out \o dict.map1[Cur] /\ skipped' = skipped
           ELSE out' = out /\ Range(skipped') = Range(skipped) \cup {Cur}
        /\ pc' = "convert"

\* the example: only a -> Y in the table, b another in-alphabet symbol
C9_Example ==
    (/\ pc = "idle"
     /\ Len(chars) = 2 /\ InAlphabet(chars[1]) /\ InAlphabet(chars[2])
     /\ DOMAIN dict.map1 = {chars[1]} /\ chars[2] # chars[1]
     /\ DOMAIN dict.map2 = {}) =>
        /\ dst = dict.map1[chars[1]]
        /\ Range(skipped) = {chars[2]}
        /\ CursorPositions = {0, 1}

\* C9: no fallback shift.  When the symbol under the cursor is in the
\* alphabet and the 2-symbol lookup does not succeed, the iteration is
\* decided by the 1-symbol entry of that symbol alone (its value is
\* appended, or the symbol joins the unmatched set), the cursor advances by
\* exactly 1, and the next symbol is the next cursor position.  With only
\* a -> Y in the table, "ab" gives Y and the unmatched set {b}.
C9_NoFallbackShift == [][C9_StepOnly1]_vars /\ []C9_Example

\* "ab" was converted with only a -> 1 in the table: two cursor positions,
\* output 1, b unmatched.
C9_Witness ==
    /\ pc = "idle"
    /\ chars = <<SmallA, KA>>
    /\ DOMAIN dict.map1 = {SmallA} /\ DOMAIN dict.map2 = {}
    /\ dst = <<49>>
    /\ skipped = <<KA>>
    /\ Len(log) = 2

---------------------------------------------------------------------------
\* C3: out-of-alphabet handling.  Whenever the symbol under convert's
\* cursor is neither whitespace nor in the alphabet, the iteration records
\* it in the unmatched set, appends nothing and advances the cursor by 1.
\* The convert of lines 247-288 does not record the symbol.
C3_OutOfAlphabetRecorded ==
    [][(Scanning /\ ~IsWs(Cur) /\ ~InAlphabet(Cur)) =>
          /\ Cur \in Range(skipped')
          /\ out' = out
          /\ i' = i + 1]_vars

---------------------------------------------------------------------------
\* convert has returned to refresh
Returned == pc \in {"highlight", "idle"}

\* in-alphabet symbols that stood under the cursor with no lookup succeeding
UnmatchedAt(p) ==
    /\ InAlphabet(chars[p + 1])
    /\ ~PairApplies(chars, p, dict)
    /\ chars[p + 1] \notin DOMAIN dict.map1
UnmatchedInAlphabet == {chars[p + 1] : p \in {q \in CursorPositions : UnmatchedAt(q)}}

\* symbols under the cursor that are neither whitespace nor in the alphabet
OutsideScanned ==
    {chars[p + 1] : p \in {q \in CursorPositions :
                            ~IsWs(chars[q + 1]) /\ ~InAlphabet(chars[q + 1])}}

\* C4 as stated: after convert finishes, the unmatched set is exactly the
\* set of in-alphabet symbols that stood at a cursor position where neither
\* lookup succeeded, and holds no symbol outside the alphabet.
C4_OnlyInAlphabet ==
    Returned =>
        /\ Range(skipped) = UnmatchedInAlphabet
        /\ \A x \in Range(skipped) : InAlphabet(x)

\* C4, amended: after convert finishes, the unmatched set holds exactly the
\* in-alphabet symbols that stood at a cursor position where neither lookup
\* succeeded and, under the convert of lines 57-91, also every scanned
\* symbol that is neither whitespace nor in the alphabet (the convert of
\* lines 247-288 records none of those).  It never holds whitespace.
C4_UnmatchedContent ==
    Returned =>
        /\ Range(skipped) =
              UnmatchedInAlphabet
                  \cup (IF page = "highlight" THEN OutsideScanned ELSE {})
        /\ \A x \in Range(skipped) : ~IsWs(x)
        /\ Len(skipped) = Cardinality(Range(skipped))

\* a matched symbol, an unmatched in-alphabet symbol and an outside symbol
\* were scanned by the convert of lines 57-91
C4_Witness ==
    /\ pc = "idle" /\ page = "highlight"
    /\ chars = <<SmallA, KA, LatinX>>
    /\ DOMAIN dict.map1 = {SmallA} /\ DOMAIN dict.map2 = {}
    /\ skipped = <<KA, LatinX>>

---------------------------------------------------------------------------
\* C6: empty table.  With both maps empty, converting a text made only of
\* in-alphabet symbols and whitespace gives exactly the whitespace symbols
\* of the text in their order (nothing at all when it has no whitespace)
\* and the unmatched set of all distinct in-alphabet symbols of the text.
C6_EmptyTable ==
    (/\ Returned
     /\ DOMAIN dict.map1 = {} /\ DOMAIN dict.map2 = {}
     /\ \A k \in 1..Len(src) : InAlphabet(src[k]) \/ IsWs(src[k])) =>
        /\ out = SelectWs(src)
        /\ dst = out
        /\ Range(skipped) = {src[k] : k \in {m \in 1..Len(src) : InAlphabet(src[m])}}
        /\ ((\A k \in 1..Len(src) : ~IsWs(src[k])) => out = <<>>)

C6_Witness ==
    /\ pc = "idle"
    /\ DOMAIN dict.map1 = {} /\ DOMAIN dict.map2 = {}
    /\ src = <<KA, LF, SmallA>>
    /\ dst = <<LF>>
    /\ Range(skipped) = {KA, SmallA}

---------------------------------------------------------------------------
\* no value of the table contains whitespace
ValuesWithoutWs(d) ==
    /\ \A k \in DOMAIN d.map1 : \A n \in 1..Len(d.map1[k]) : ~IsWs(d.map1[k][n])
    /\ \A k \in DOMAIN d.map2 : \A n \in 1..Len(d.map2[k]) : ~IsWs(d.map2[k][n])

C7_Step ==
    /\ (Scanning /\ IsWs(Cur)) =>
          (out' = Append(out, Cur) /\ i' = i + 1 /\ skipped' = skipped)
    /\ (Scanning /\ i + 1 < Len(chars) /\ IsWs(chars[i + 2])) => i' = i + 1

C7_Subsequence ==
    (pc \in {"convert", "highlight", "idle"} /\ ValuesWithoutWs(dict)) =>
        SelectWs(out) = SelectWs(SubSeq(chars, 1, i))

\* C7: whitespace preservation.  A space, tab, newline or carriage return
\* under the cursor is appended to the output as that one symbol, with the
\* cursor advancing by 1 and nothing recorded, and it is never consumed as
\* the second symbol of a pair; so for a table whose values hold no
\* whitespace the whitespace of the output is the whitespace of the
\* normalized source scanned so far.
C7_WhitespacePreserved == [][C7_Step]_vars /\ []C7_Subsequence

\* "a LF b" converted with a -> 1, b -> 2 gives "1 LF 2"
C7_Witness ==
    /\ pc = "idle"
    /\ chars = <<SmallA, LF, KA>>
    /\ DOMAIN dict.map1 = {SmallA, KA} /\ DOMAIN dict.map2 = {}
    /\ dst = <<49, LF, 50>>

---------------------------------------------------------------------------
\* the decision convert took for position p: the iteration that consumed it
ConvertEntry(p) ==
    CHOOSE e \in Range(log) : e.pos = p \/ (e.kind = "pair" /\ e.pos + 1 = p)

TagFromConvert(p) ==
    LET e == ConvertEntry(p) IN
    IF e.kind \in {"pair", "single"} THEN "good"
    ELSE IF e.kind = "space" THEN "space"
    ELSE "bad"

\* C2: classification/conversion agreement.  The marking loop of
\* buildHighlightHtml visits the cursor positions convert visited, in the
\* same order and with the same decision at each; a position is tagged good
\* iff convert consumed it through a successful lookup, bad iff convert
\* added its symbol to the unmatched set, space iff convert copied it.
C2_Agreement ==
    (pc \in {"highlight", "idle"} /\ page = "highlight") =>
        /\ hchars = chars
        /\ Len(hlog) <= Len(log)
        /\ hlog = SubSeq(log, 1, Len(hlog))
        /\ pc = "idle" =>
              /\ hlog = log
              /\ \A p \in 0..(Len(chars) - 1) :
                    /\ mark[p + 1] = TagFromConvert(p)
                    /\ (mark[p + 1] = "bad") = (ConvertEntry(p).pos = p
                                                /\ chars[p + 1] \in Range(skipped)
                                                /\ ConvertEntry(p).kind \in {"other", "miss"})
                    /\ hl[p + 1].bad = (mark[p + 1] = "bad")

\* a text with an unmatched symbol, whitespace and a matched symbol
C2_Witness ==
    /\ pc = "idle" /\ page = "highlight"
    /\ chars = <<KA, LF, SmallA>>
    /\ DOMAIN dict.map1 = {SmallA}
    /\ mark = <<"bad", "space", "good">>

---------------------------------------------------------------------------
\* the cursor positions of a finished scan cover 0..n-1 once each: the scan
\* starts at 0, each iteration starts where the previous one ended, 1 or 2
\* further, and the last one ends at n
CoversOnce(lg, n) ==
    IF n = 0 THEN Len(lg) = 0
    ELSE /\ Len(lg) > 0
         /\ lg[1].pos = 0
         /\ \A k \in 1..(Len(lg) - 1) : lg[k + 1].pos - lg[k].pos \in {1, 2}
         /\ n - lg[Len(lg)].pos \in {1, 2}

C10_Step ==
    /\ Scanning =>
          /\ i' - i \in {1, 2}
          /\ i' <= Len(chars)
          /\ (i' = i + 2 => i + 1 < Len(chars))
    /\ (pc = "highlight" /\ j < Len(hchars)) =>
          /\ j' - j \in {1, 2}
          /\ j' <= Len(hchars)
          /\ (j' = j + 2 => j + 1 < Len(hchars))

C10_Bounded ==
    /\ i <= Len(chars)
    /\ j <= Len(hchars)
    /\ Returned => (i = Len(chars) /\ CoversOnce(log, Len(chars)))
    /\ (pc = "idle" /\ page = "highlight") =>
          (j = Len(hchars) /\ CoversOnce(hlog, Len(hchars)))

\* C10: scan progress and termination.  Every iteration of convert's loop
\* and of the marking loop moves the cursor by exactly 1 or 2 (by 2 only
\* when a next symbol exists), the cursor never passes the length of the
\* normalized text, and every scan ends, with the cursor at that length and
\* every position consumed exactly once.
C10_Progress ==
    /\ [][C10_Step]_vars
    /\ []C10_Bounded
    /\ (pc = "convert") ~> (pc = "idle")

\* a scan of three symbols finished in two iterations, one of them a pair
C10_Witness ==
    /\ pc = "idle" /\ page = "highlight"
    /\ Len(chars) = 3
    /\ Len(log) = 2 /\ Len(hlog) = 2
    /\ i = 3 /\ j = 3

---------------------------------------------------------------------------
(* Vocabulary of the dictionary properties: a raw line, read as the        *)
(* dictionary format describes it.                                         *)

HasTab(raw) == \E k \in 1..Len(raw) : raw[k] = TAB
FirstTab(raw) == CHOOSE k \in 1..Len(raw) : raw[k] = TAB /\ \A m \in 1..(k - 1) : raw[m] # TAB

RECURSIVE StripEnd(_)
StripEnd(s) ==
    IF Len(s) > 0 /\ s[Len(s)] \in JsSpace THEN StripEnd(SubSeq(s, 1, Len(s) - 1)) ELSE s

RECURSIVE StripStart(_)
StripStart(s) ==
    IF Len(s) > 0 /\ s[1] \in JsSpace THEN StripStart(Tail(s)) ELSE s

\* the trimmed, normalized key of a line that has a tab
KeyOf(raw) == NFC(StripStart(StripEnd(SubSeq(raw, 1, FirstTab(raw) - 1))))

\* the text of the line after its first tab
AfterTab(raw) == SubSeq(raw, FirstTab(raw) + 1, Len(raw))

\* a non-comment line with a tab whose key is 1 or 2 in-alphabet symbols
Eligible(raw) ==
    /\ Len(raw) > 0 /\ raw[1] # HASH
    /\ HasTab(raw)
    /\ Len(KeyOf(raw)) \in {1, 2}
    /\ \A k \in 1..Len(KeyOf(raw)) : InAlphabet(KeyOf(raw)[k])

HasEntry(m1, m2, key) ==
    IF Len(key) = 1 THEN key[1] \in DOMAIN m1 ELSE key \in DOMAIN m2
EntryValue(m1, m2, key) ==
    IF Len(key) = 1 THEN m1[key[1]] ELSE m2[key]

\* parseDictTsv is about to process line ln
Parsing == pc = "load" /\ ln < Len(lines)
RawLine == lines[ln + 1]

\* C5 as stated: for every eligible line the parser stores as the key's
\* value exactly the text after the first tab, trailing spaces and tabs
\* kept, the empty string when nothing follows the tab.
C5_ValueVerbatim ==
    [][(Parsing /\ Eligible(RawLine)) =>
          /\ HasEntry(map1', map2', KeyOf(RawLine))
          /\ EntryValue(map1', map2', KeyOf(RawLine)) = AfterTab(RawLine)]_vars

\* C5, amended: for every eligible line the parser stores as the key's value
\* the text after the first tab with its trailing whitespace removed and
\* everything before that kept (leading spaces and tabs included); when only
\* whitespace, or nothing, follows the first tab the line stores no entry
\* and leaves both maps as they were.
C5_ValueTrimmedAtEnd ==
    [][(Parsing /\ Eligible(RawLine)) =>
          IF Len(StripEnd(AfterTab(RawLine))) = 0
          THEN map1' = map1 /\ map2' = map2
          ELSE /\ HasEntry(map1', map2', KeyOf(RawLine))
               /\ EntryValue(map1', map2', KeyOf(RawLine)) = StripEnd(AfterTab(RawLine))]_vars

\* the line "KA TAB SP KA SP" was parsed: the value kept its leading space
\* and lost its trailing one
C5_Witness ==
    /\ Len(plog) = 1
    /\ plog[1].raw = <<KA, TAB, SP, KA, SP>>
    /\ KA \in DOMAIN map1
    /\ map1[KA] = <<SP, KA>>

---------------------------------------------------------------------------
TableInvariant(m1, m2) ==
    /\ \A k \in DOMAIN m1 : InAlphabet(k)
    /\ \A k \in DOMAIN m2 : Len(k) = 2 /\ InAlphabet(k[1]) /\ InAlphabet(k[2])

\* a line the format rejects
Rejected(raw) ==
    \/ Len(raw) = 0
    \/ raw[1] = HASH
    \/ ~HasTab(raw)
    \/ Len(KeyOf(raw)) = 0
    \/ Len(KeyOf(raw)) >= 3
    \/ \E k \in 1..Len(KeyOf(raw)) : ~InAlphabet(KeyOf(raw)[k])

C8_Keys == TableInvariant(map1, map2) /\ TableInvariant(dict.map1, dict.map2)

C8_RejectedLine == (Parsing /\ Rejected(RawLine)) => (map1' = map1 /\ map2' = map2)

\* C8: dictionary table invariant.  After every line parseDictTsv has
\* processed, each key of the 1-symbol map is one in-alphabet symbol and
\* each key of the 2-symbol map is two in-alphabet symbols; a line that is
\* empty, starts with '#', has no tab, or whose key has length 0 or >= 3 or
\* holds an out-of-alphabet symbol leaves both maps unchanged.
C8_TableInvariant == []C8_Keys /\ [][C8_RejectedLine]_vars

\* an entry with a 2-symbol key was stored and an empty line after it left
\* the table alone
C8_Witness ==
    /\ Len(plog) = 2
    /\ plog[1].kind = "set2"
    /\ plog[2].raw = <<>> /\ plog[2].kind = "blank"
    /\ DOMAIN map2 = {<<KA, KA>>}
    /\ DOMAIN map1 = {}

=============================================================================
